---- MODULE Spec2Model ----
(***************************************************************************)
(* gh_mirror.py: mirror every repository of a GitHub user into local bare  *)
(* checkouts.  The model follows main() step by step: cache renewal        *)
(* (_renew_cache), the loop over the cached catalog with its prefix        *)
(* filter, _ensure_directory, _git_checkout, the hosting/cgit metadata     *)
(* writes, and the optional fetch; plus the progress printer               *)
(* _git_clone_progress as a separate specification.                        *)
(*                                                                         *)
(* Python str values are tuples of tokens (so that startswith, dirname and *)
(* ' '.join are computed, not assumed); '' is <<>>.  What is printed to    *)
(* the terminal is not part of the state.  Variables marked "history"      *)
(* record what happened and are read by the properties only.               *)
(***************************************************************************)
EXTENDS Integers, Sequences, FiniteSets, TLC

\* ---------------------------------------------------------------- bounds
MaxRuns == 2          \* invocations of main() in one behaviour
MaxRepos == 2         \* descriptors returned by one pagination sweep
MaxFaults == 1        \* failures of the network or the disk in one behaviour
MaxCount == 8         \* largest object counter handed to the progress printer

\* ------------------------------------------------------ program constants
HTTP_OK == 200
OS_FILE_EXISTS == 17
\* status codes the listing may answer with, errno values makedirs may raise
StatusCodes == { HTTP_OK, 500 }
Errnos == { OS_FILE_EXISTS, 13 }

\* ------------------------------------------------------------ str helpers
RECURSIVE StartsWith(_, _)
\* str.startswith: every character of p is matched at the front of s
StartsWith(s, p) ==
    IF p = <<>> THEN TRUE
    ELSE IF s = <<>> THEN FALSE
    ELSE Head(s) = Head(p) /\ StartsWith(Tail(s), Tail(p))

RECURSIVE Dirname(_)
\* os.path.dirname: everything before the last "/" ('' when there is none)
Dirname(s) ==
    IF s = <<>> THEN <<>>
    ELSE IF s[Len(s)] = "/" THEN SubSeq(s, 1, Len(s) - 1)
    ELSE Dirname(SubSeq(s, 1, Len(s) - 1))

RECURSIVE Join(_, _)
\* sep.join(parts)
Join(sep, parts) ==
    IF parts = <<>> THEN <<>>
    ELSE IF Len(parts) = 1 THEN parts[1]
    ELSE parts[1] \o sep \o Join(sep, Tail(parts))

\* os.path.join(argp.checkout_dir, rel) with the default checkout directory
CheckoutDir == <<"/var/lib/git/">>
PathJoin(dir, rel) == dir \o rel

\* Python truthiness of a str
Truthy(v) == v # <<>>

\* ------------------------------------------------------------ descriptors
MkDesc(owner, branch, home) ==
    [ full_name      |-> owner \o <<"/", "x">>,
      name           |-> <<"x">>,
      owner          |-> owner,
      description    |-> IF owner = <<"a">> THEN <<>> ELSE <<"d">>,
      default_branch |-> branch,
      homepage       |-> home,
      clone_url      |-> <<"https://">> \o owner \o <<"/", "x">>,
      git_url        |-> <<"git://">> \o owner \o <<"/", "x">>,
      ssh_url        |-> <<"ssh://">> \o owner \o <<"/", "x">>,
      html_url       |-> <<"html://">> \o owner \o <<"/", "x">> ]

\* the catalog entries the remote may list: each full_name in two versions,
\* every combination of homepage and default branch among them
Descriptors ==
    { MkDesc(<<"a">>, <<"gh-pages">>, <<"h">>), MkDesc(<<"a">>, <<"master">>, <<>>),
      MkDesc(<<"a", "b">>, <<"master">>, <<"h">>),
      MkDesc(<<"a", "b">>, <<"gh-pages">>, <<>>) }
FullNames == { d.full_name : d \in Descriptors }
Paths == { PathJoin(CheckoutDir, n) : n \in FullNames }
Prefixes == { <<>>, <<"a", "b">>, <<"b">> }

\* pages the remote may answer with: at most `room` descriptors
PagesUpTo(room) ==
    UNION { [1..n -> Descriptors] : n \in 0..room }

\* ------------------------------------------------------------------ state
VARIABLES
    shelf,        \* the shelve file: [present, user_repos]
    dirs,         \* directories that exist under the checkout directory
    mirror,       \* path -> what is on disk at that path
    pc,           \* position of the current invocation of main()
    err,          \* the exception that ended the invocation ("none" if none)
    argp,         \* parsed arguments: [renew_cache, prefix, fetch]
    page,         \* _renew_cache: page counter
    user_repos,   \* _renew_cache: accumulator; main: the list being iterated
    idx,          \* main: position in user_repos (1-based)
    session,      \* the config_writer of the current descriptor
    gitpython_repo, \* main: path of the repository handle _git_checkout returned
    runs,         \* invocations started so far
    faults,       \* failures of the network or the disk so far
    shelf0,       \* history: the shelf when the invocation started
    responses,    \* history: [code, body] answered for each page requested
    requested,    \* history: page numbers requested, in order
    processed,    \* history: catalog positions handed to _ensure_directory
    cloneCount,   \* history: path -> clones completed at that path
    cloneCalls,   \* history: arguments of every clone_from call of this invocation
    shelfWrites,  \* history: assignments to shelf['user_repos'] in this invocation
    synced,       \* history: path -> <<[d, m, again]>> when the last change of
                  \*          the mirror was a completed metadata sync with d
                  \*          that left it as m (again: so was the one before)
    cur_count, max_count,   \* _git_clone_progress: arguments
    percent,      \* _git_clone_progress: the value formatted as the percentage
    raised,       \* _git_clone_progress: exception raised ("none" if none)
    called        \* _global_git_clone_progress_called

diskVars == <<shelf, dirs, mirror>>
histVars == <<shelf0, responses, requested, processed, cloneCount, cloneCalls,
              shelfWrites, synced>>
progVars == <<cur_count, max_count, percent, raised, called>>
vars == <<shelf, dirs, mirror, pc, err, argp, page, user_repos, idx, session,
          gitpython_repo,
          runs, faults, shelf0, responses, requested, processed, cloneCount, cloneCalls,
          shelfWrites, synced, cur_count, max_count, percent, raised,
          called>>

\* ------------------------------------------------------------ disk values
NoShelf == [present |-> FALSE, user_repos |-> <<>>]
EmptyConfig == [sections |-> {}, opts |-> {}]
NoMirror == [state |-> "absent", export |-> FALSE, description |-> <<>>,
             config |-> EmptyConfig]
\* what `git clone --bare` leaves: a repository with its own sections
ClonedMirror == [state |-> "repo", export |-> FALSE, description |-> <<>>,
                 config |-> [sections |-> {"core", "remote"}, opts |-> {}]]

\* ------------------------------------------------------------ _renew_cache
\* `not shelf`: a shelf is falsy when it holds no key
ShelfEmpty(sh) == ~sh.present

\* variant: the emptiness of the shelf is ignored
ShouldRenewForceOnly(force, sh) == force
\* lines 59-62: any([argp.renew_cache, not shelf])
ShouldRenew(force, sh) == force \/ ShelfEmpty(sh)

\* variant: the status code is never checked
IsOkAlways(code) == TRUE
\* line 72: http_code != 200 raises
IsOk(code) == code = HTTP_OK

\* variant: the page is put in front of the accumulator
ExtendFront(acc, body) == body \o acc
\* line 74: user_repos.extend(user_repos_page)
Extend(acc, body) == acc \o body

\* line 75: `if not user_repos_page: break`
LoopBreaks(body) == body = <<>>

\* -------------------------------------------------------------------- Init
ProgressIdle ==
    /\ cur_count = [kind |-> "num", n |-> 0]
    /\ max_count = [kind |-> "none", n |-> 0]
    /\ percent = [kind |-> "dots", n |-> 0]
    /\ raised = "none"
    /\ called = FALSE

NoArgs == [renew_cache |-> FALSE, prefix |-> <<>>, fetch |-> TRUE]

Init ==
    /\ shelf = NoShelf
    /\ dirs = {}
    /\ mirror = [p \in Paths |-> NoMirror]
    /\ pc = "idle"
    /\ err = "none"
    /\ argp = NoArgs
    /\ page = 0
    /\ user_repos = <<>>
    /\ idx = 0
    /\ session = "none"
    /\ gitpython_repo = <<>>
    /\ runs = 0
    /\ faults = 0
    /\ shelf0 = NoShelf
    /\ responses = <<>>
    /\ requested = <<>>
    /\ processed = <<>>
    /\ cloneCount = [p \in Paths |-> 0]
    /\ cloneCalls = <<>>
    /\ shelfWrites = 0
    /\ synced = [p \in Paths |-> <<>>]
    /\ ProgressIdle

\* the invocation ends with an unhandled exception
Fails(kind) ==
    /\ pc' = "failed"
    /\ err' = kind

\* the network or the disk fails (at most MaxFaults times)
Fault == faults < MaxFaults /\ faults' = faults + 1
NoFault == faults' = faults

\* line 147 and the head of the loop at line 149
EnterLoop(sh) ==
    IF sh.present
    THEN /\ user_repos' = sh.user_repos
         /\ idx' = 1
         /\ pc' = "loop"
         /\ err' = "none"
    ELSE /\ user_repos' = <<>>
         /\ idx' = 0
         /\ Fails("KeyError")

\* lines 136-146, 55-67: a new process parses its arguments, opens the
\* shelf and decides whether to renew
StartRun(force, prefix, fetch) ==
    /\ pc = "idle"
    /\ runs < MaxRuns
    /\ runs' = runs + 1
    /\ argp' = [renew_cache |-> force, prefix |-> prefix, fetch |-> fetch]
    /\ session' = "none"
    /\ gitpython_repo' = <<>>
    /\ shelf0' = shelf
    /\ responses' = <<>>
    /\ requested' = <<>>
    /\ processed' = <<>>
    /\ cloneCalls' = <<>>
    /\ shelfWrites' = 0
    /\ page' = 0
    /\ IF ShouldRenew(force, shelf)
       THEN /\ user_repos' = <<>>
            /\ idx' = 0
            /\ pc' = "paging"
            /\ err' = "none"
       ELSE EnterLoop(shelf)
    /\ UNCHANGED <<diskVars, faults, cloneCount, synced, progVars>>

\* lines 215-216: main() has returned or raised; the process ends and its
\* memory, an unreleased config writer included, is gone
Exit ==
    /\ pc \in {"done", "failed"}
    /\ pc' = "idle"
    /\ err' = "none"
    /\ argp' = NoArgs
    /\ page' = 0
    /\ user_repos' = <<>>
    /\ idx' = 0
    /\ session' = "none"
    /\ gitpython_repo' = <<>>
    /\ shelf0' = NoShelf
    /\ responses' = <<>>
    /\ requested' = <<>>
    /\ processed' = <<>>
    /\ cloneCalls' = <<>>
    /\ shelfWrites' = 0
    /\ UNCHANGED <<diskVars, runs, faults, cloneCount, synced, progVars>>

\* lines 68-77: one iteration of the pagination loop; the assignment to the
\* shelf follows the break in the same step
FetchPage(code, body) ==
    /\ pc = "paging"
    /\ page' = page + 1
    /\ requested' = Append(requested, page + 1)
    /\ responses' = Append(responses, [code |-> code, body |-> body])
    /\ IF code = HTTP_OK THEN NoFault ELSE Fault
    /\ IF ~IsOk(code)
       THEN /\ Fails("UserWarning")
            /\ UNCHANGED <<shelf, shelfWrites, user_repos, idx>>
       ELSE IF LoopBreaks(body)
       THEN /\ shelf' = [present |-> TRUE, user_repos |-> Extend(user_repos, body)]
            /\ shelfWrites' = shelfWrites + 1
            /\ EnterLoop(shelf')
       ELSE /\ user_repos' = Extend(user_repos, body)
            /\ UNCHANGED <<shelf, shelfWrites, idx, pc, err>>
    /\ UNCHANGED <<dirs, mirror, argp, session, gitpython_repo, runs, shelf0, processed,
                   cloneCount, cloneCalls, synced, progVars>>

\* ------------------------------------------------------------ the loop body
gh_repo == user_repos[idx]

\* what is on disk at a path (nothing at a path no catalog entry names)
Lookup(p) == IF p \in Paths THEN mirror[p] ELSE NoMirror

\* variant: the prefix is looked for anywhere in the name (`in`)
MatchesAnywhere(full_name, prefix) ==
    \E i \in 1..(Len(full_name) + 1) :
        StartsWith(SubSeq(full_name, i, Len(full_name)), prefix)
\* line 150: gh_repo[u'full_name'].startswith(argp.prefix)
Matches(full_name, prefix) == StartsWith(full_name, prefix)

\* lines 82-85: the directory _ensure_directory creates
EnsureDir(full_name) == PathJoin(CheckoutDir, Dirname(full_name))

\* lines 88-90: the only OSError that is swallowed
Swallowed(errno) == errno = OS_FILE_EXISTS

\* lines 149-151: a descriptor the prefix does not select is passed over
LoopSkip ==
    /\ pc = "loop"
    /\ idx <= Len(user_repos)
    /\ ~Matches(gh_repo.full_name, argp.prefix)
    /\ idx' = idx + 1
    /\ UNCHANGED <<diskVars, pc, err, argp, page, user_repos, session, gitpython_repo, runs, faults,
                   histVars, progVars>>

\* line 149: the list is exhausted, main() returns
LoopEnd ==
    /\ pc = "loop"
    /\ idx > Len(user_repos)
    /\ pc' = "done"
    /\ UNCHANGED <<diskVars, err, argp, page, user_repos, idx, session, gitpython_repo, runs, faults,
                   histVars, progVars>>

\* lines 149-153, 79-90: a selected descriptor; os.makedirs answers with
\* errno (0: created)
EnsureDirectory(errno) ==
    /\ pc = "loop"
    /\ idx <= Len(user_repos)
    /\ Matches(gh_repo.full_name, argp.prefix)
    /\ (EnsureDir(gh_repo.full_name) \in dirs) <=> (errno = OS_FILE_EXISTS)
    /\ IF errno \in {0, OS_FILE_EXISTS} THEN NoFault ELSE Fault
    /\ processed' = Append(processed, idx)
    /\ IF errno = 0
       THEN /\ dirs' = dirs \cup {EnsureDir(gh_repo.full_name)}
            /\ pc' = "checkout"
            /\ err' = "none"
       ELSE IF Swallowed(errno)
       THEN /\ pc' = "checkout"
            /\ err' = "none"
            /\ dirs' = dirs
       ELSE /\ Fails("OSError")
            /\ dirs' = dirs
    /\ UNCHANGED <<shelf, mirror, argp, page, user_repos, idx, session, gitpython_repo, runs,
                   shelf0, responses, requested, cloneCount, cloneCalls,
                   shelfWrites, synced, progVars>>

\* ------------------------------------------------------------ _git_checkout
\* variant: the repository is opened under its short name
OpenPathByName(d) == PathJoin(CheckoutDir, d.name)
\* lines 119-121: the path gitpython.Repo is opened at
OpenPath(d) == PathJoin(CheckoutDir, d.full_name)

\* lines 125-130: the arguments of clone_from
CloneArgs(d) ==
    [ d       |-> d,
      url     |-> d.clone_url,
      to_path |-> PathJoin(CheckoutDir, d.full_name),
      bare    |-> TRUE ]

\* gitpython.Repo(path): the exception it raises, if any
RepoOpen(m) ==
    CASE m.state = "repo"    -> "none"
      [] m.state = "absent"  -> "NoSuchPathError"
      [] OTHER               -> "InvalidGitRepositoryError"

\* lines 114-134: open the mirror, or clone it when its path does not exist.
\* A clone that fails leaves the path absent or a directory that is no
\* repository (`left`).
GitCheckout(cloned, left) ==
    /\ pc = "checkout"
    /\ LET exc == RepoOpen(Lookup(OpenPath(gh_repo)))
           call == CloneArgs(gh_repo)
       IN  IF exc = "none"
           THEN /\ gitpython_repo' = OpenPath(gh_repo)
                /\ pc' = "hosting"
                /\ err' = "none"
                /\ NoFault
                /\ UNCHANGED <<mirror, cloneCount, cloneCalls, synced>>
           ELSE IF exc = "NoSuchPathError"
           THEN /\ cloneCalls' = Append(cloneCalls, call)
                /\ IF cloned /\ Lookup(call.to_path).state = "absent"
                   THEN /\ mirror' = [mirror EXCEPT ![call.to_path] = ClonedMirror]
                        /\ cloneCount' = [cloneCount EXCEPT ![call.to_path] = @ + 1]
                        /\ synced' = [synced EXCEPT ![call.to_path] = <<>>]
                        /\ gitpython_repo' = call.to_path
                        /\ pc' = "hosting"
                        /\ err' = "none"
                        /\ NoFault
                   ELSE /\ Fails("clone: GitCommandError")
                        /\ gitpython_repo' = <<>>
                        /\ IF Lookup(call.to_path).state = "absent"
                           THEN Fault ELSE NoFault
                        /\ mirror' =
                             IF Lookup(call.to_path).state = "absent"
                             THEN [mirror EXCEPT ![call.to_path].state = left]
                             ELSE mirror
                        /\ UNCHANGED <<cloneCount, synced>>
           ELSE /\ Fails(exc)
                /\ gitpython_repo' = <<>>
                /\ NoFault
                /\ UNCHANGED <<mirror, cloneCount, cloneCalls, synced>>
    /\ UNCHANGED <<shelf, dirs, argp, page, user_repos, idx, session, runs,
                   shelf0, responses, requested, processed, shelfWrites,
                   progVars>>

\* ------------------------------------------------- hosting and cgit metadata
HasSection(cfg, section) == section \in cfg.sections
HasOption(cfg, section, key) == \E o \in cfg.opts : o[1] = section /\ o[2] = key
Option(cfg, section, key) ==
    (CHOOSE o \in cfg.opts : o[1] = section /\ o[2] = key)[3]

AddSection(cfg, section) == [cfg EXCEPT !.sections = @ \cup {section}]

\* variant: an existing value is extended instead of replaced
ConfigSetAppending(cfg, section, key, value) ==
    [cfg EXCEPT !.opts =
        { o \in @ : ~(o[1] = section /\ o[2] = key) }
        \cup { <<section, key,
                 IF HasOption(cfg, section, key)
                 THEN Option(cfg, section, key) \o value ELSE value>> }]
\* git_config.set(section, key, value): the key then holds exactly value
ConfigSet(cfg, section, key, value) ==
    [cfg EXCEPT !.opts =
        { o \in @ : ~(o[1] = section /\ o[2] = key) }
        \cup { <<section, key, value>> }]

SetOp(key, value) == [op |-> "set", key |-> key, value |-> value]

\* lines 165-186: the calls made on the config writer, in order
ConfigOps(cfg, d) ==
    (IF ~HasSection(cfg, "cgit")
     THEN << [op |-> "add_section", key |-> "cgit", value |-> <<>>] >>
     ELSE << >>)
    \o << SetOp("defbranch", d.default_branch),
          SetOp("desc", d.description),
          SetOp("name", d.name),
          SetOp("owner", d.owner),
          SetOp("clone-url",
                Join(<<" ">>, <<d.git_url, d.ssh_url, d.clone_url>>)) >>
    \o (IF Truthy(d.homepage)
        THEN << SetOp("homepage", d.homepage) >> ELSE << >>)
    \o (IF d.default_branch = <<"gh-pages">>
        THEN << SetOp("enable-html-serving", <<"true">>) >> ELSE << >>)

ApplyOp(cfg, o) ==
    IF o.op = "add_section"
    THEN AddSection(cfg, o.key)
    ELSE ConfigSet(cfg, "cgit", o.key, o.value)

RECURSIVE ApplyOps(_, _)
ApplyOps(cfg, ops) ==
    IF ops = <<>> THEN cfg ELSE ApplyOps(ApplyOp(cfg, Head(ops)), Tail(ops))

\* lines 156-160: daemon_export and description
HostingFlags ==
    /\ pc = "hosting"
    /\ LET p == gitpython_repo
           m == [mirror[p] EXCEPT !.export = TRUE,
                                  !.description = gh_repo.description]
       IN  /\ mirror' = [mirror EXCEPT ![p] = m]
           /\ synced' = [synced EXCEPT ![p] = IF m = mirror[p] THEN @ ELSE <<>>]
    /\ pc' = "config"
    /\ UNCHANGED <<shelf, dirs, err, argp, page, user_repos, idx, session, gitpython_repo, runs,
                   faults, shelf0, responses, requested, processed, cloneCount,
                   cloneCalls, shelfWrites, progVars>>

\* lines 190, 149: after the metadata, the fetch or the next descriptor
AfterConfig ==
    IF argp.fetch
    THEN pc' = "fetch" /\ idx' = idx
    ELSE pc' = "loop" /\ idx' = idx + 1

\* lines 162-188: the config writer is acquired, the calls of ConfigOps are
\* made, and release() is the statement that follows them.  The first `done`
\* calls succeed; when done is less than their number the next one raises.
ConfigWrite(done) ==
    /\ pc = "config"
    /\ LET p == gitpython_repo
           ops == ConfigOps(mirror[p].config, gh_repo)
           cfg == ApplyOps(mirror[p].config, SubSeq(ops, 1, done))
           m == [mirror[p] EXCEPT !.config = cfg]
       IN  /\ done <= Len(ops)
           /\ mirror' = [mirror EXCEPT ![p] = m]
           /\ IF done = Len(ops)
              THEN /\ session' = "released"
                   /\ synced' = [synced EXCEPT ![p] =
                         << [ d |-> gh_repo, m |-> m,
                              again |-> @ # <<>> /\ @[1].d = gh_repo ] >>]
                   /\ err' = "none"
                   /\ NoFault
                   /\ AfterConfig
              ELSE /\ session' = "held"
                   /\ Fault
                   /\ synced' = [synced EXCEPT ![p] = <<>>]
                   /\ Fails("ConfigError")
                   /\ idx' = idx
    /\ UNCHANGED <<shelf, dirs, argp, page, user_repos, gitpython_repo, runs,
                   shelf0, responses, requested, processed, cloneCount,
                   cloneCalls, shelfWrites, progVars>>

\* lines 190-212: the force-fetch of the three refspecs; its results are
\* printed and change nothing the model keeps
Fetch(ok) ==
    /\ pc = "fetch"
    /\ IF ok
       THEN /\ pc' = "loop"
            /\ idx' = idx + 1
            /\ err' = "none"
            /\ NoFault
       ELSE /\ Fails("fetch: GitCommandError")
            /\ Fault
            /\ idx' = idx
    /\ UNCHANGED <<diskVars, argp, page, user_repos, session, gitpython_repo, runs, histVars,
                   progVars>>

\* the most config calls one descriptor needs (add_section, five sets, two
\* conditional sets)
MaxOps == Len(ConfigOps(EmptyConfig, MkDesc(<<"a">>, <<"gh-pages">>, <<"h">>)))

Next ==
    \/ \E f \in BOOLEAN, p \in Prefixes, u \in BOOLEAN : StartRun(f, p, u)
    \/ Exit
    \/ \E c \in StatusCodes :
         \E b \in (IF c = HTTP_OK THEN PagesUpTo(MaxRepos - Len(user_repos))
                   ELSE { <<>> }) : FetchPage(c, b)
    \/ LoopSkip
    \/ LoopEnd
    \/ \E e \in {0} \cup Errnos : EnsureDirectory(e)
    \/ \E c \in BOOLEAN, l \in {"absent", "invalid"} : GitCheckout(c, l)
    \/ HostingFlags
    \/ \E k \in 0..MaxOps : ConfigWrite(k)
    \/ \E ok \in BOOLEAN : Fetch(ok)

Spec == Init /\ [][Next]_vars

\* ------------------------------------------------------ _git_clone_progress
\* Arguments are [kind, n]: a number n ("num"), None ("none"), or a str that
\* is no number ("text", '' included).
Num(n) == [kind |-> "num", n |-> n]
NoneArg == [kind |-> "none", n |-> 0]
TextArg == [kind |-> "text", n |-> 0]
Dots == [kind |-> "dots", n |-> 0]
ProgressArgs == { Num(n) : n \in 0..MaxCount } \cup { NoneArg, TextArg }

\* int(v): the exception it raises, if any, and its value
IntOf(v) ==
    CASE v.kind = "num"  -> [exc |-> "none", n |-> v.n]
      [] v.kind = "none" -> [exc |-> "TypeError", n |-> 0]
      [] OTHER           -> [exc |-> "ValueError", n |-> 0]

\* lines 99-103: percent starts as '...'; int(cur_count) // int(max_count)
\* * 100 replaces it unless an exception is raised, and only ValueError is
\* caught
Percent(cur, max) ==
    LET c == IntOf(cur)
        m == IntOf(max)
        exc == IF c.exc # "none" THEN c.exc
               ELSE IF m.exc # "none" THEN m.exc
               ELSE IF m.n = 0 THEN "ZeroDivisionError"
               ELSE "none"
    IN  IF exc = "none"
        THEN [raised |-> "none", percent |-> Num((c.n \div m.n) * 100)]
        ELSE IF exc = "ValueError"
        THEN [raised |-> "none", percent |-> Dots]
        ELSE [raised |-> exc, percent |-> Dots]

\* lines 93-111: one call of the progress callback
GitCloneProgress ==
    /\ ~called
    /\ called' = TRUE
    /\ percent' = Percent(cur_count, max_count).percent
    /\ raised' = Percent(cur_count, max_count).raised
    /\ UNCHANGED <<shelf, dirs, mirror, pc, err, argp, page, user_repos, idx,
                   session, gitpython_repo, runs, faults, histVars, cur_count,
                   max_count>>

\* the callback is handed every combination of counter and total
InitProgress ==
    /\ shelf = NoShelf
    /\ dirs = {}
    /\ mirror = [p \in Paths |-> NoMirror]
    /\ pc = "idle"
    /\ err = "none"
    /\ argp = NoArgs
    /\ page = 0
    /\ user_repos = <<>>
    /\ idx = 0
    /\ session = "none"
    /\ gitpython_repo = <<>>
    /\ runs = 0
    /\ faults = 0
    /\ shelf0 = NoShelf
    /\ responses = <<>>
    /\ requested = <<>>
    /\ processed = <<>>
    /\ cloneCount = [p \in Paths |-> 0]
    /\ cloneCalls = <<>>
    /\ shelfWrites = 0
    /\ synced = [p \in Paths |-> <<>>]
    /\ cur_count \in ProgressArgs
    /\ max_count \in ProgressArgs
    /\ percent = Dots
    /\ raised = "none"
    /\ called = FALSE

NextProgress == GitCloneProgress

SpecProgress == InitProgress /\ [][NextProgress]_vars

\* ================================================================== claims
Range(f) == { f[i] : i \in DOMAIN f }
LoopPhases == {"loop", "checkout", "hosting", "config", "fetch", "done"}

RECURSIVE Concat(_, _)
\* P1 ++ ... ++ Pk for the bodies of the first k responses
Concat(rs, k) == IF k = 0 THEN <<>> ELSE Concat(rs, k - 1) \o rs[k].body

\* s begins with p
HasPrefix(s, p) == Len(p) <= Len(s) /\ SubSeq(s, 1, Len(p)) = p

\* catalog positions the prefix selects
Selected == { i \in 1..Len(user_repos) :
                HasPrefix(user_repos[i].full_name, argp.prefix) }

\* C1: once a page of the sweep has answered with a status other than 200,
\* the invocation has ended with the fatal error and the shelf is what it
\* was when the invocation started: nothing was written, whatever pages had
\* been fetched before.
C1_RenewalAbort ==
    (\E i \in DOMAIN responses : responses[i].code # HTTP_OK)
        => /\ pc = "failed"
           /\ err = "UserWarning"
           /\ shelfWrites = 0
           /\ shelf = shelf0

\* C1 witness: a forced renewal over an existing entry fails on page 2,
\* after a non-empty page 1.
C1_Witness ==
    /\ pc = "failed"
    /\ shelf0.present
    /\ Len(responses) = 2
    /\ responses[1].body # <<>>
    /\ responses[2].code # HTTP_OK

\* C2: pages are requested as 1, 2, 3, ... in order, each once, and none
\* after the first empty page or error; when every page answered 200 and the
\* last one is the first empty page, the sweep is over and the shelf holds
\* the concatenation of the pages before it, in order.
C2_Pagination ==
    LET n == Len(responses)
    IN  /\ requested = [i \in 1..n |-> i]
        /\ \A i \in 1..(n - 1) :
             responses[i].code = HTTP_OK /\ responses[i].body # <<>>
        /\ (n >= 1 /\ responses[n].code = HTTP_OK /\ responses[n].body = <<>>)
             => /\ pc # "paging"
                /\ shelf = [present |-> TRUE, user_repos |-> Concat(responses, n - 1)]
        /\ (n >= 1 /\ responses[n].code = HTTP_OK /\ responses[n].body # <<>>)
             => pc = "paging"

\* C2 witness: a sweep of two different one-descriptor pages and the empty
\* third page has been written to the shelf.
C2_Witness ==
    /\ shelfWrites = 1
    /\ Len(responses) = 3
    /\ responses[1].body # responses[2].body

\* C3: an invocation sweeps exactly when --renew-cache is set or the shelf
\* held no entry when it started; otherwise it requests no page and leaves
\* the shelf as it was; and it assigns the shelf at most once.
C3_RenewalDecision ==
    pc # "idle" =>
        LET due == argp.renew_cache \/ ~shelf0.present
        IN  /\ requested # <<>> => due
            /\ due => (requested # <<>> \/ pc = "paging")
            /\ ~due => (requested = <<>> /\ shelfWrites = 0 /\ shelf = shelf0)
            /\ shelfWrites <= 1

\* C3 witness: an invocation that found an entry and was not forced has
\* worked through it.
C3_Witness ==
    /\ pc = "done"
    /\ shelf0.present
    /\ ~argp.renew_cache
    /\ processed # <<>>

\* C4: the loop iterates the cached list; the positions it processes are
\* positions the prefix selects, in increasing order, each once; resolve,
\* sync and fetch act on the position processed last; and an invocation
\* that ends without failure has processed exactly the selected positions
\* (all of them under the empty prefix).
C4_PrefixFilter ==
    pc \in LoopPhases =>
        /\ shelf.present /\ user_repos = shelf.user_repos
        /\ \A k \in DOMAIN processed : processed[k] \in Selected
        /\ \A k \in 1..(Len(processed) - 1) : processed[k] < processed[k + 1]
        /\ pc \in {"checkout", "hosting", "config", "fetch"}
             => (processed # <<>> /\ idx = processed[Len(processed)])
        /\ pc = "done" => Range(processed) = Selected
        /\ (pc = "done" /\ argp.prefix = <<>>)
             => Len(processed) = Len(user_repos)

\* C4 witness: a finished invocation whose non-empty prefix selected one of
\* two catalog entries.
C4_Witness ==
    /\ pc = "done"
    /\ argp.prefix # <<>>
    /\ Len(user_repos) = 2
    /\ Len(processed) = 1

\* C5: no path is cloned more than once; every clone_from call carries the
\* descriptor's clone_url, <checkout_dir>/<full_name> and bare=True; a
\* mirror that is present stays present, is not cloned again and no
\* clone_from call names its path; and resolve on an absent path calls
\* clone_from.
C5_CloneOnce ==
    /\ [](\A p \in Paths : cloneCount[p] <= 1)
    /\ [](\A c \in Range(cloneCalls) :
            /\ c.bare
            /\ c.url = c.d.clone_url
            /\ c.to_path = CheckoutDir \o c.d.full_name)
    /\ [][ /\ \A p \in Paths :
                mirror[p].state = "repo" =>
                    /\ mirror'[p].state = "repo"
                    /\ cloneCount'[p] = cloneCount[p]
                    /\ Len(cloneCalls') > Len(cloneCalls)
                         => cloneCalls'[Len(cloneCalls')].to_path # p
           /\ (pc = "checkout" /\ pc' = "hosting"
                 /\ mirror[CheckoutDir \o gh_repo.full_name].state = "repo")
                => /\ cloneCalls' = cloneCalls
                   /\ gitpython_repo' = CheckoutDir \o gh_repo.full_name
           /\ (pc = "checkout"
                 /\ mirror[CheckoutDir \o gh_repo.full_name].state = "absent")
                => /\ Len(cloneCalls') = Len(cloneCalls) + 1
                   /\ cloneCalls'[Len(cloneCalls')].d = gh_repo
         ]_vars

\* C5 witness: a later invocation has resolved a mirror cloned earlier,
\* without a clone call.
C5_Witness ==
    /\ pc = "hosting"
    /\ runs = 2
    /\ cloneCalls = <<>>
    /\ cloneCount[gitpython_repo] = 1

\* C6: a metadata sync with descriptor D that completes on a mirror whose
\* last change was a completed sync with the same D leaves the mirror
\* (export flag, description, configuration) exactly as that sync left it.
C6_SyncIdempotent ==
    [][ (/\ pc = "config"
         /\ pc' \in {"fetch", "loop"}
         /\ synced[gitpython_repo] # <<>>
         /\ synced[gitpython_repo][1].d = gh_repo)
            => mirror'[gitpython_repo] = synced[gitpython_repo][1].m ]_vars

\* C6 witness: two syncs with the same descriptor have completed in a row
\* on one mirror.
C6_Witness ==
    \E p \in Paths : synced[p] # <<>> /\ synced[p][1].again

\* C7: after a completed sync with D the configuration has no homepage key
\* when D.homepage is empty, has cgit.enable-html-serving = "true" when
\* D.default_branch is "gh-pages", and has no such key for any other branch.
C7_ConditionalKeys ==
    \A p \in Paths :
        synced[p] # <<>> =>
            LET d == synced[p][1].d
                cfg == mirror[p].config
            IN  /\ ~Truthy(d.homepage) => ~HasOption(cfg, "cgit", "homepage")
                /\ d.default_branch = <<"gh-pages">>
                     => /\ HasOption(cfg, "cgit", "enable-html-serving")
                        /\ Option(cfg, "cgit", "enable-html-serving") = <<"true">>
                /\ d.default_branch # <<"gh-pages">>
                     => ~HasOption(cfg, "cgit", "enable-html-serving")

\* C8: whenever control has left the metadata sync, normally or by an
\* error, the config writer is not held.
C8_SessionReleased ==
    pc \in {"loop", "fetch", "done", "failed"} => session # "held"

\* C9: an error of directory creation (other than already-exists) or of
\* the clone ends the processing of that descriptor only: the invocation
\* still processes every descriptor the prefix selects.
C9_FailureIsolation ==
    (pc = "failed" /\ err \in {"OSError", "clone: GitCommandError"})
        => Range(processed) = Selected

\* C10: with numbers 0 <= cur <= max, max > 0, the value printed is
\* floor(100 * cur / max); with a total that is None or no number the
\* marker '...' is printed; and in both cases nothing is raised.
C10_ProgressPercent ==
    called =>
        /\ (/\ cur_count.kind = "num" /\ max_count.kind = "num"
            /\ 0 <= cur_count.n /\ cur_count.n <= max_count.n /\ max_count.n > 0)
             => /\ raised = "none"
                /\ percent = Num((100 * cur_count.n) \div max_count.n)
        /\ (cur_count.kind = "num" /\ max_count.kind # "num")
             => /\ raised = "none"
                /\ percent = Dots

====
